---- MODULE Spec2Model ----
(***************************************************************************)
(* SimpleBotRunner (src/app.py): a supervisor that launches one OS process *)
(* per discovered bot folder, watches each launch from its own thread and  *)
(* is driven by concurrent HTTP request threads.  Every step below is one   *)
(* group of consecutive statements of the source; request threads and       *)
(* watcher threads interleave between the steps, as no lock is taken        *)
(* anywhere in the source.                                                  *)
(***************************************************************************)
EXTENDS Integers, Sequences, FiniteSets, TLC

\* ---------------------------------------------------------------- bounds
\* Number of requests the model lets the HTTP clients send, in all.
MaxCalls == 3
\* Number of seconds the model lets int(time.time()) advance.
MaxClock == 1

\* ------------------------------------------------------ program constants
\* process_info["process"].wait(timeout=5)
Grace == 5
\* Popen.returncode of a child ended by terminate() (SIGTERM) / kill() (SIGKILL)
TermCode == -15
KillCode == -9
\* exit codes of a child that ends on its own (the source never inspects an
\* exit code, it only stores and reports it)
ExitCodes == {0}

\* Python's None, and a present value
None == <<>>
Some(x) == <<x>>

\* The request threads of the HTTP server.
Callers == {1, 2}
\* os.listdir(BOTS_DIR): the sub-folders that hold an app.py, in listing order
FolderOrder == <<"a">>
\* folders that may appear under BOTS_DIR while the server runs
NewFolders == {"b", "c"}
\* what a sub-folder holds: an app.py that reads, none, or one open() fails on
AppKinds == {"ok", "none", "unreadable"}
\* the example folders scan_bots creates when BOTS_DIR is missing
Examples == <<"bot1", "bot2", "bot3">>
\* a bot id that no scan ever produced
UnknownId == <<"zz", 0>>

\* a launch needs a start request: no more launches than requests
Procs == 1..MaxCalls

VARIABLES
    bots,       \* runner.bots: the list of descriptors (references into desc)
    desc,       \* the bot_info dicts ever created, by reference
    processes,  \* runner.processes: bot id -> {process, bot_info, log_fd}
    procs,      \* the OS children and their Popen objects / log handles
    watcher,    \* the _monitor_bot_exit thread of each launch
    caller,     \* the request threads
    clock,      \* int(time.time())
    calls,      \* requests received so far
    disk        \* BOTS_DIR: whether it exists and what os.listdir shows in it

vars == <<bots, desc, processes, procs, watcher, caller, clock, calls, disk>>

\* ------------------------------------------------------------ descriptors
\* create_bot_info: the dict of a folder scanned at time ts
create_bot_info(folder, ts) ==
    [id |-> <<folder, ts>>, folder |-> folder, status |-> "stopped",
     pid |-> None, start_time |-> None, exit_code |-> None]

\* every id a request may name
Ids == {desc[d].id : d \in 1..Len(desc)} \cup {UnknownId}

\* ------------------------------------------------------------- processes
NoProc ==
    [state |-> "none", id |-> UnknownId, exit |-> None, returncode |-> None,
     sig |-> "none", log_closes |-> 0]

launched == {p \in Procs : procs[p].state # "none"}

\* Popen.poll() / the reaping part of Popen.wait(): returncode is set once
\* the child is seen to have ended
Reap(ps, p) ==
    IF ps[p].state = "exited" THEN [ps EXCEPT ![p].returncode = ps[p].exit]
    ELSE ps

\* log_fd.close() on the log handle opened by launch p
CloseLog(ps, p) == [ps EXCEPT ![p].log_closes = @ + 1]

\* the child ends on its own with exit code c
ProcExitSelf(p, c) ==
    /\ procs[p].state = "alive"
    /\ procs' = [procs EXCEPT ![p].state = "exited", ![p].exit = Some(c), ![p].sig = "none"]
    /\ UNCHANGED <<bots, desc, processes, watcher, caller, clock, calls, disk>>

\* the child honours SIGTERM (it may also ignore it: the step is not forced)
ProcExitTerm(p) ==
    /\ procs[p].state = "alive"
    /\ procs[p].sig = "term"
    /\ procs' = [procs EXCEPT ![p].state = "exited", ![p].exit = Some(TermCode), ![p].sig = "none"]
    /\ UNCHANGED <<bots, desc, processes, watcher, caller, clock, calls, disk>>

\* the child is ended by SIGKILL
ProcExitKill(p) ==
    /\ procs[p].state = "alive"
    /\ procs[p].sig = "kill"
    /\ procs' = [procs EXCEPT ![p].state = "exited", ![p].exit = Some(KillCode), ![p].sig = "none"]
    /\ UNCHANGED <<bots, desc, processes, watcher, caller, clock, calls, disk>>

\* ---------------------------------------------------------- the registry
NoRec == [process |-> 0, bot_info |-> 0, log_fd |-> 0]

\* self.processes[id] = rec
Insert(reg, id, rec) ==
    [i \in DOMAIN reg \cup {id} |-> IF i = id THEN rec ELSE reg[i]]

\* del self.processes[id]
Delete(reg, id) == [i \in DOMAIN reg \ {id} |-> reg[i]]

\* -------------------------------------------------------- request threads
\* the entry of a get_status report that is not built yet
NoEntry ==
    [id |-> UnknownId, status |-> "none", running |-> FALSE, pid |-> None,
     uptime |-> None, exit_code |-> None]

Idle ==
    [pc |-> "idle", op |-> "none", id |-> UnknownId, bot |-> 0, rec |-> NoRec,
     waited |-> 0, forced |-> FALSE, result |-> "none",
     i |-> 0, live |-> TRUE, lst |-> <<>>, entry |-> NoEntry, report |-> <<>>,
     count |-> 0, nrun |-> 0, keys |-> {}, started |-> None]

\* the list a "for bot in self.bots" loop of thread record c walks: the list
\* runner.bots named when the loop began, which is runner.bots itself until a
\* rescan binds runner.bots to a new list
Items(c) == IF c.live THEN bots ELSE c.lst

\* a handler ends: its result is kept until the response is sent
Ret(c, res) == [c EXCEPT !.pc = "ret", !.result = res]

\* start_bot is over with outcome res: success_count of start_all_bots is
\* counted and its loop sleeps; an exception leaves the loop as well
StartDone(c, res) ==
    IF c.op = "start_all" /\ res # "error"
    THEN [c EXCEPT !.pc = "start_all_sleep",
                   !.count = IF res = "ok" THEN @ + 1 ELSE @]
    ELSE Ret(c, res)

\* stop_bot is over with outcome res: stop_all_bots drops the value and
\* takes its next key; an exception leaves the loop as well
StopDone(c, res) ==
    IF c.op = "stop_all" /\ res # "error"
    THEN [c EXCEPT !.pc = "stop_all_item"]
    ELSE Ret(c, res)

\* the response is sent and the thread takes the next request
Return(t) ==
    /\ caller[t].pc = "ret"
    /\ caller' = [caller EXCEPT ![t] = Idle]
    /\ UNCHANGED <<bots, desc, processes, procs, watcher, clock, calls, disk>>

\* ------------------------------------------------- start_bot (131-192)
\* a start that searches every descriptor ever made, discarded ones included
api_start_bot_searches_old(t, id) ==
    /\ caller[t].pc = "idle"
    /\ calls < MaxCalls
    /\ calls' = calls + 1
    /\ LET hit == {d \in 1..Len(desc) : desc[d].id = id} IN
        /\ caller' = [caller EXCEPT ![t] =
              IF hit = {}
              THEN Ret([Idle EXCEPT !.op = "start", !.id = id], "not_found")
              ELSE [Idle EXCEPT !.pc = "start_check", !.op = "start", !.id = id,
                                !.bot = CHOOSE d \in hit : \A e \in hit : d <= e]]
    /\ UNCHANGED <<bots, desc, processes, procs, watcher, clock, disk>>

\* api_start_bot: the first descriptor of runner.bots with the id, or 404
api_start_bot(t, id) ==
    /\ caller[t].pc = "idle"
    /\ calls < MaxCalls
    /\ calls' = calls + 1
    /\ LET hit == {i \in 1..Len(bots) : desc[bots[i]].id = id} IN
        /\ caller' = [caller EXCEPT ![t] =
              IF hit = {}
              THEN Ret([Idle EXCEPT !.op = "start", !.id = id], "not_found")
              ELSE [Idle EXCEPT !.pc = "start_check", !.op = "start", !.id = id,
                                !.bot = bots[CHOOSE i \in hit : \A j \in hit : i <= j]]]
    /\ UNCHANGED <<bots, desc, processes, procs, watcher, clock, disk>>

\* if bot_info["id"] in self.processes:
start_bot_check(t) ==
    /\ caller[t].pc = "start_check"
    /\ caller' = [caller EXCEPT ![t].pc =
          IF caller[t].id \in DOMAIN processes THEN "start_poll" ELSE "start_launch"]
    /\ UNCHANGED <<bots, desc, processes, procs, watcher, clock, calls, disk>>

\* start_bot without its "already running" return
start_bot_poll_always_launches(t) ==
    /\ caller[t].pc = "start_poll"
    /\ caller' = [caller EXCEPT ![t].pc = "start_launch"]
    /\ UNCHANGED <<bots, desc, processes, procs, watcher, clock, calls, disk>>

\* process_info = self.processes[bot_info["id"]] (KeyError, raised outside the
\* try, when the id is gone); if process_info["process"].poll() is None: return True
start_bot_poll(t) ==
    /\ caller[t].pc = "start_poll"
    /\ IF caller[t].id \notin DOMAIN processes
       THEN /\ caller' = [caller EXCEPT ![t] = StartDone(@, "error")]
            /\ UNCHANGED procs
       ELSE LET p == processes[caller[t].id].process IN
            /\ procs' = Reap(procs, p)
            /\ caller' = [caller EXCEPT ![t] =
                  IF procs[p].state = "alive" THEN StartDone(@, "ok")
                  ELSE [@ EXCEPT !.pc = "start_launch"]]
    /\ UNCHANGED <<bots, desc, processes, watcher, clock, calls, disk>>

\* log_fd = open(...); process = subprocess.Popen(...): the launch succeeds
start_bot_launch(t) ==
    /\ caller[t].pc = "start_launch"
    /\ LET p == Cardinality(launched) + 1 IN
        /\ p \in Procs
        /\ procs' = [procs EXCEPT ![p] = [NoProc EXCEPT !.state = "alive", !.id = caller[t].id]]
        /\ caller' = [caller EXCEPT ![t].pc = "start_register",
                         ![t].rec = [process |-> p, bot_info |-> caller[t].bot, log_fd |-> p]]
    /\ UNCHANGED <<bots, desc, processes, watcher, clock, calls, disk>>

\* a failed launch that has already marked the bot as running
start_bot_launch_fails_marks_running(t) ==
    /\ caller[t].pc = "start_launch"
    /\ desc' = [desc EXCEPT ![caller[t].bot].status = "running", ![caller[t].bot].pid = Some(0)]
    /\ caller' = [caller EXCEPT ![t] = StartDone(@, "fail")]
    /\ UNCHANGED <<bots, processes, procs, watcher, clock, calls, disk>>

\* open() or Popen raises: except Exception: return False
start_bot_launch_fails(t) ==
    /\ caller[t].pc = "start_launch"
    /\ caller' = [caller EXCEPT ![t] = StartDone(@, "fail")]
    /\ UNCHANGED <<bots, desc, processes, procs, watcher, clock, calls, disk>>

\* bot_info[...] = ...; self.processes[id] = {...}; Thread(_monitor_bot_exit).start(); return True
start_bot_register(t) ==
    /\ caller[t].pc = "start_register"
    /\ LET r == caller[t].rec IN
        /\ desc' = [desc EXCEPT ![r.bot_info] =
              [@ EXCEPT !.pid = Some(r.process), !.status = "running",
                        !.start_time = Some(clock), !.exit_code = None]]
        /\ processes' = Insert(processes, caller[t].id, r)
        /\ watcher' = [watcher EXCEPT ![r.process] = [pc |-> "wait", exit_code |-> None]]
    /\ caller' = [caller EXCEPT ![t] = StartDone(@, "ok")]
    /\ UNCHANGED <<bots, procs, clock, calls, disk>>

\* ----------------------------------------- _monitor_bot_exit (194-212)
\* exit_code = process.wait()
monitor_wait(p) ==
    /\ watcher[p].pc = "wait"
    /\ procs[p].state = "exited"
    /\ procs' = Reap(procs, p)
    /\ watcher' = [watcher EXCEPT ![p] = [pc |-> "check", exit_code |-> procs[p].exit]]
    /\ UNCHANGED <<bots, desc, processes, caller, clock, calls, disk>>

\* a watcher that starts the bot again after reconciling its exit
monitor_update_restarts(p) ==
    /\ watcher[p].pc = "check"
    /\ procs[p].id \in DOMAIN processes
    /\ LET r == processes[procs[p].id]
           q == Cardinality(launched) + 1 IN
        /\ q \in Procs
        /\ desc' = [desc EXCEPT ![r.bot_info] =
              [@ EXCEPT !.status = "running", !.pid = Some(q), !.exit_code = None]]
        /\ procs' = [CloseLog(procs, r.log_fd) EXCEPT
              ![q] = [NoProc EXCEPT !.state = "alive", !.id = procs[p].id]]
        /\ processes' = Insert(processes, procs[p].id,
              [process |-> q, bot_info |-> r.bot_info, log_fd |-> q])
        /\ watcher' = [watcher EXCEPT ![p].pc = "done",
                                      ![q] = [pc |-> "wait", exit_code |-> None]]
    /\ UNCHANGED <<bots, caller, clock, calls, disk>>

\* if bot_id in self.processes: bot_info = self.processes[bot_id]["bot_info"];
\* status = "stopped"; exit_code = exit_code; self.processes[bot_id]["log_fd"].close();
\* del self.processes[bot_id]
\* (the statements after the wait are taken as one step: a stop that deletes
\* the entry between the membership test and a later lookup makes that lookup
\* raise KeyError, which ends the thread with nothing changed, the outcome of
\* the step taken after the stop)
monitor_update(p) ==
    /\ watcher[p].pc = "check"
    /\ IF procs[p].id \notin DOMAIN processes
       THEN UNCHANGED <<desc, procs, processes>>
       ELSE LET r == processes[procs[p].id] IN
            /\ desc' = [desc EXCEPT ![r.bot_info] =
                  [@ EXCEPT !.status = "stopped", !.exit_code = watcher[p].exit_code]]
            /\ procs' = CloseLog(procs, r.log_fd)
            /\ processes' = Delete(processes, procs[p].id)
    /\ watcher' = [watcher EXCEPT ![p].pc = "done"]
    /\ UNCHANGED <<bots, caller, clock, calls, disk>>

\* --------------------------------------------------- stop_bot (214-247)
\* api_stop_bot: runner.stop_bot(bot_id) for whatever id the request names
api_stop_bot(t, id) ==
    /\ caller[t].pc = "idle"
    /\ calls < MaxCalls
    /\ calls' = calls + 1
    /\ caller' = [caller EXCEPT ![t] = [Idle EXCEPT !.pc = "stop_check", !.op = "stop", !.id = id]]
    /\ UNCHANGED <<bots, desc, processes, procs, watcher, clock, disk>>

\* Popen.terminate(): SIGTERM, unless the child is already seen to have ended
Terminate(ps, p) ==
    LET r == Reap(ps, p) IN
    IF r[p].state = "alive" /\ r[p].sig = "none" THEN [r EXCEPT ![p].sig = "term"] ELSE r

\* Popen.kill(): SIGKILL, unless the child is already seen to have ended
Kill(ps, p) ==
    LET r == Reap(ps, p) IN
    IF r[p].state = "alive" THEN [r EXCEPT ![p].sig = "kill"] ELSE r

\* stop_bot without its membership test
stop_bot_check_unguarded(t) ==
    /\ caller[t].pc = "stop_check"
    /\ caller' = [caller EXCEPT ![t].pc = "stop_lookup"]
    /\ UNCHANGED <<bots, desc, processes, procs, watcher, clock, calls, disk>>

\* if bot_id in self.processes: ... return False
stop_bot_check(t) ==
    /\ caller[t].pc = "stop_check"
    /\ caller' = [caller EXCEPT ![t] =
          IF caller[t].id \in DOMAIN processes THEN [@ EXCEPT !.pc = "stop_lookup"]
          ELSE StopDone(@, "fail")]
    /\ UNCHANGED <<bots, desc, processes, procs, watcher, clock, calls, disk>>

\* process_info = self.processes[bot_id] (KeyError when the id is gone);
\* bot_info = process_info["bot_info"]; process_info["process"].terminate()
stop_bot_lookup(t) ==
    /\ caller[t].pc = "stop_lookup"
    /\ IF caller[t].id \notin DOMAIN processes
       THEN /\ caller' = [caller EXCEPT ![t] = StopDone(@, "error")]
            /\ UNCHANGED procs
       ELSE LET r == processes[caller[t].id] IN
            /\ procs' = Terminate(procs, r.process)
            /\ caller' = [caller EXCEPT ![t].pc = "stop_wait", ![t].rec = r]
    /\ UNCHANGED <<bots, desc, processes, watcher, clock, calls, disk>>

\* process.wait(timeout=5) returns: the child has ended
stop_bot_wait(t) ==
    /\ caller[t].pc = "stop_wait"
    /\ procs[caller[t].rec.process].state = "exited"
    /\ procs' = Reap(procs, caller[t].rec.process)
    /\ caller' = [caller EXCEPT ![t].pc = "stop_finish"]
    /\ UNCHANGED <<bots, desc, processes, watcher, clock, calls, disk>>

\* one time unit of the grace period passes with the child still alive
stop_bot_wait_tick(t) ==
    /\ caller[t].pc = "stop_wait"
    /\ procs[caller[t].rec.process].state = "alive"
    /\ caller[t].waited < Grace
    /\ caller' = [caller EXCEPT ![t].waited = @ + 1]
    /\ UNCHANGED <<bots, desc, processes, procs, watcher, clock, calls, disk>>

\* a stop that kills without waiting for the grace period to run out
stop_bot_wait_timeout_early(t) ==
    /\ caller[t].pc = "stop_wait"
    /\ procs[caller[t].rec.process].state = "alive"
    /\ procs' = Kill(procs, caller[t].rec.process)
    /\ caller' = [caller EXCEPT ![t].pc = "stop_finish", ![t].forced = TRUE]
    /\ UNCHANGED <<bots, desc, processes, watcher, clock, calls, disk>>

\* the timeout expires: except: process.kill()
stop_bot_wait_timeout(t) ==
    /\ caller[t].pc = "stop_wait"
    /\ procs[caller[t].rec.process].state = "alive"
    /\ caller[t].waited = Grace
    /\ procs' = Kill(procs, caller[t].rec.process)
    /\ caller' = [caller EXCEPT ![t].pc = "stop_finish", ![t].forced = TRUE]
    /\ UNCHANGED <<bots, desc, processes, watcher, clock, calls, disk>>

\* log_fd.close(); bot_info["status"] = "stopped"; bot_info["exit_code"] =
\* process.returncode; del self.processes[bot_id]; return True
\* (the statements after the wait are taken as one step; the del raises
\* KeyError when the id is no longer a key)
stop_bot_finish(t) ==
    /\ caller[t].pc = "stop_finish"
    /\ LET r == caller[t].rec IN
        /\ procs' = CloseLog(procs, r.log_fd)
        /\ desc' = [desc EXCEPT ![r.bot_info] =
              [@ EXCEPT !.status = "stopped", !.exit_code = procs[r.process].returncode]]
    /\ IF caller[t].id \notin DOMAIN processes
       THEN /\ caller' = [caller EXCEPT ![t] = StopDone(@, "error")]
            /\ UNCHANGED processes
       ELSE /\ processes' = Delete(processes, caller[t].id)
            /\ caller' = [caller EXCEPT ![t] = StopDone(@, "ok")]
    /\ UNCHANGED <<bots, watcher, clock, calls, disk>>

\* ------------------------------------------------- get_status (274-312)
\* bot_status = {"id": ..., "status": bot["status"], "running": False, "pid": bot.get("pid"), ...}
bot_status(d) ==
    [id |-> desc[d].id, status |-> desc[d].status, running |-> FALSE,
     pid |-> desc[d].pid, uptime |-> None, exit_code |-> None]

\* a status that reads process.returncode without polling the process
polled_without_poll(e, d, p) ==
    IF procs[p].returncode = None
    THEN [e EXCEPT !.running = TRUE,
                   !.uptime = IF desc[d].start_time = None THEN None
                              ELSE Some(clock - desc[d].start_time[1])]
    ELSE [e EXCEPT !.exit_code = procs[p].returncode]

\* process = self.processes[id]["process"]; if process.poll() is None: running, uptime
\* else: bot_status["exit_code"] = process.returncode
polled(e, d, p) ==
    IF Reap(procs, p)[p].returncode = None
    THEN [e EXCEPT !.running = TRUE,
                   !.uptime = IF desc[d].start_time = None THEN None
                              ELSE Some(clock - desc[d].start_time[1])]
    ELSE [e EXCEPT !.exit_code = Reap(procs, p)[p].returncode]

\* what get_status reports for descriptor d when nothing runs in between
get_status_entry(d) ==
    IF desc[d].id \in DOMAIN processes
    THEN polled(bot_status(d), d, processes[desc[d].id].process)
    ELSE bot_status(d)

\* status_list.append(bot_status), then the next bot or return status_list
Appended(c, e) ==
    IF c.i >= Len(Items(c))
    THEN Ret([c EXCEPT !.report = Append(@, e), !.entry = NoEntry], "ok")
    ELSE [c EXCEPT !.report = Append(@, e), !.entry = NoEntry, !.i = @ + 1,
                   !.pc = "status_item"]

\* api_status: status = runner.get_status()
api_status(t) ==
    /\ caller[t].pc = "idle"
    /\ calls < MaxCalls
    /\ calls' = calls + 1
    /\ caller' = [caller EXCEPT ![t] =
          IF Len(bots) = 0 THEN Ret([Idle EXCEPT !.op = "status"], "ok")
          ELSE [Idle EXCEPT !.pc = "status_item", !.op = "status", !.i = 1]]
    /\ UNCHANGED <<bots, desc, processes, procs, watcher, clock, disk>>

\* for bot in self.bots: bot_status = {...}; if bot["id"] in self.processes:
get_status_item(t) ==
    /\ caller[t].pc = "status_item"
    /\ LET d == Items(caller[t])[caller[t].i] IN
       caller' = [caller EXCEPT ![t] =
          IF desc[d].id \in DOMAIN processes
          THEN [@ EXCEPT !.pc = "status_poll", !.entry = bot_status(d)]
          ELSE Appended(@, bot_status(d))]
    /\ UNCHANGED <<bots, desc, processes, procs, watcher, clock, calls, disk>>

\* process = self.processes[bot["id"]]["process"] (KeyError when the id is gone);
\* process.poll()
get_status_poll(t) ==
    /\ caller[t].pc = "status_poll"
    /\ LET d == Items(caller[t])[caller[t].i] IN
       IF desc[d].id \notin DOMAIN processes
       THEN /\ caller' = [caller EXCEPT ![t] = Ret(@, "error")]
            /\ UNCHANGED procs
       ELSE LET p == processes[desc[d].id].process IN
            /\ procs' = Reap(procs, p)
            /\ caller' = [caller EXCEPT ![t] = Appended(@, polled(caller[t].entry, d, p))]
    /\ UNCHANGED <<bots, desc, processes, watcher, clock, calls, disk>>

\* -------------------------------------------- start_all_bots (249-263)
\* for bot in self.bots: the loop takes the bot at position c.i, if any, and
\* calls self.start_bot(bot); past the end start_all_bots returns, with no
\* value, and api_start_all answers {"success": True, "message": ...}
start_all_next(c) ==
    IF c.i > Len(Items(c)) THEN Ret(c, "ok")
    ELSE [c EXCEPT !.pc = "start_check", !.bot = Items(c)[c.i],
                   !.id = desc[Items(c)[c.i]].id, !.rec = NoRec]

\* api_start_all: runner.start_all_bots(); success_count = 0
api_start_all(t) ==
    /\ caller[t].pc = "idle"
    /\ calls < MaxCalls
    /\ calls' = calls + 1
    /\ caller' = [caller EXCEPT ![t] =
          start_all_next([Idle EXCEPT !.op = "start_all", !.i = 1])]
    /\ UNCHANGED <<bots, desc, processes, procs, watcher, clock, disk>>

\* time.sleep(1) is over: the next bot of the list
start_all_sleep(t) ==
    /\ caller[t].pc = "start_all_sleep"
    /\ caller' = [caller EXCEPT ![t] = start_all_next([@ EXCEPT !.i = @ + 1])]
    /\ UNCHANGED <<bots, desc, processes, procs, watcher, clock, calls, disk>>

\* ---------------------------------------------- stop_all_bots (265-272)
\* api_stop_all: for bot_id in list(self.processes.keys()): the keys are copied
api_stop_all(t) ==
    /\ caller[t].pc = "idle"
    /\ calls < MaxCalls
    /\ calls' = calls + 1
    /\ caller' = [caller EXCEPT ![t] =
          [Idle EXCEPT !.pc = "stop_all_item", !.op = "stop_all", !.keys = DOMAIN processes]]
    /\ UNCHANGED <<bots, desc, processes, procs, watcher, clock, disk>>

\* self.stop_bot(bot_id) for the next copied key, or the end of the loop
\* (the order of the keys is not kept by the model: any order is allowed)
stop_all_item(t) ==
    /\ caller[t].pc = "stop_all_item"
    /\ IF caller[t].keys = {}
       THEN caller' = [caller EXCEPT ![t] = Ret(@, "ok")]
       ELSE \E id \in caller[t].keys :
               caller' = [caller EXCEPT ![t] =
                  [@ EXCEPT !.pc = "stop_check", !.id = id, !.keys = @ \ {id},
                            !.rec = NoRec, !.waited = 0, !.forced = FALSE]]
    /\ UNCHANGED <<bots, desc, processes, procs, watcher, clock, calls, disk>>

\* ------------------------------------------------------ health (546-554)
\* {"bots": len(runner.bots), "running": len(runner.processes)}
api_health(t) ==
    /\ caller[t].pc = "idle"
    /\ calls < MaxCalls
    /\ calls' = calls + 1
    /\ caller' = [caller EXCEPT ![t] =
          Ret([Idle EXCEPT !.op = "health", !.count = Len(bots),
                           !.nrun = Cardinality(DOMAIN processes)], "ok")]
    /\ UNCHANGED <<bots, desc, processes, procs, watcher, clock, disk>>

\* ------------------------------- api_rescan (540-544), scan_bots (34-71)
\* a loop over the old list keeps walking the old list
Detached(c) ==
    IF /\ \/ c.pc \in {"status_item", "status_poll"}
          \/ c.op = "start_all" /\ c.pc # "ret"
       /\ c.live
    THEN [c EXCEPT !.live = FALSE, !.lst = bots]
    ELSE c

\* a scan that gives up with an error at the first entry whose app.py cannot
\* be read
ScanFrom_stops_at_unreadable(c, i) ==
    LET rest == {j \in i..Len(c.lst) : c.lst[j].app \in {"ok", "unreadable"}} IN
    IF rest = {} THEN Ret([c EXCEPT !.i = Len(c.lst) + 1], "ok")
    ELSE LET j == CHOOSE j \in rest : \A k \in rest : j <= k IN
         IF c.lst[j].app = "unreadable"
         THEN Ret([c EXCEPT !.i = Len(c.lst) + 1], "error")
         ELSE [c EXCEPT !.pc = "scan_item", !.i = j]

\* a scan that takes every entry of the listing for a bot folder
ScanFrom_takes_every_entry(c, i) ==
    IF i > Len(c.lst) THEN Ret([c EXCEPT !.i = Len(c.lst) + 1], "ok")
    ELSE [c EXCEPT !.pc = "scan_item", !.i = i]

\* the rest of the loop over the listing, from entry i on: entries that are
\* no bot folder (no app.py, or create_bot_info returned None) add nothing
ScanFrom(c, i) ==
    LET rest == {j \in i..Len(c.lst) : c.lst[j].app = "ok"} IN
    IF rest = {} THEN Ret([c EXCEPT !.i = Len(c.lst) + 1], "ok")
    ELSE [c EXCEPT !.pc = "scan_item", !.i = CHOOSE j \in rest : \A k \in rest : j <= k]

\* runner.bots = []; runner.scan_bots(): when BOTS_DIR is missing the example
\* folders are written and scan_bots returns with nothing appended; otherwise
\* for item in os.listdir(BOTS_DIR): ...  ("count": len(runner.bots) is read
\* for the response once scan_bots has returned)
api_rescan(t) ==
    /\ caller[t].pc = "idle"
    /\ calls < MaxCalls
    /\ calls' = calls + 1
    /\ bots' = <<>>
    /\ disk' = IF disk.exists THEN disk
               ELSE [exists |-> TRUE,
                     items |-> [i \in 1..Len(Examples) |-> [name |-> Examples[i], app |-> "ok"]]]
    /\ caller' = [u \in Callers |->
          IF u # t THEN Detached(caller[u])
          ELSE LET c == ScanFrom([Idle EXCEPT !.op = "rescan", !.lst = disk.items], 1) IN
               IF c.pc = "ret" THEN [c EXCEPT !.count = 0] ELSE c]
    /\ UNCHANGED <<desc, processes, procs, watcher, clock>>

\* bot_info = self.create_bot_info(bot_path, app_file); self.bots.append(bot_info);
\* after the last entry: "count": len(runner.bots)
scan_bots_item(t) ==
    /\ caller[t].pc = "scan_item"
    /\ desc' = Append(desc, create_bot_info(caller[t].lst[caller[t].i].name, clock))
    /\ bots' = Append(bots, Len(desc) + 1)
    /\ caller' = [caller EXCEPT ![t] =
          LET c == ScanFrom(@, caller[t].i + 1) IN
          IF c.pc = "ret" THEN [c EXCEPT !.count = Len(bots')] ELSE c]
    /\ UNCHANGED <<processes, procs, watcher, clock, calls, disk>>

\* somebody puts a new sub-folder under BOTS_DIR
AddFolder(name, app) ==
    /\ disk.exists
    /\ \A i \in 1..Len(disk.items) : disk.items[i].name # name
    /\ disk' = [disk EXCEPT !.items = Append(@, [name |-> name, app |-> app])]
    /\ UNCHANGED <<bots, desc, processes, procs, watcher, caller, clock, calls>>

\* somebody removes BOTS_DIR
RemoveRoot ==
    /\ disk.exists
    /\ disk' = [exists |-> FALSE, items |-> <<>>]
    /\ UNCHANGED <<bots, desc, processes, procs, watcher, caller, clock, calls>>

\* a second passes
Tick ==
    /\ clock < MaxClock
    /\ clock' = clock + 1
    /\ UNCHANGED <<bots, desc, processes, procs, watcher, caller, calls, disk>>

\* ------------------------------------------------------ specification
\* runner = SimpleBotRunner(): the folders are scanned once, nothing runs
Init ==
    /\ desc = [i \in 1..Len(FolderOrder) |-> create_bot_info(FolderOrder[i], 0)]
    /\ bots = [i \in 1..Len(FolderOrder) |-> i]
    /\ processes = [i \in {} |-> NoRec]
    /\ procs = [p \in Procs |-> NoProc]
    /\ watcher = [p \in Procs |-> [pc |-> "none", exit_code |-> None]]
    /\ caller = [t \in Callers |-> Idle]
    /\ clock = 0
    /\ calls = 0
    /\ disk = [exists |-> TRUE,
               items |-> [i \in 1..Len(FolderOrder) |-> [name |-> FolderOrder[i], app |-> "ok"]]]

Next ==
    \/ \E t \in Callers, id \in Ids : api_start_bot(t, id)
    \/ \E t \in Callers : start_bot_check(t)
    \/ \E t \in Callers : start_bot_poll(t)
    \/ \E t \in Callers : start_bot_launch(t)
    \/ \E t \in Callers : start_bot_launch_fails(t)
    \/ \E t \in Callers : start_bot_register(t)
    \/ \E t \in Callers, id \in Ids : api_stop_bot(t, id)
    \/ \E t \in Callers : stop_bot_check(t)
    \/ \E t \in Callers : stop_bot_lookup(t)
    \/ \E t \in Callers : stop_bot_wait(t)
    \/ \E t \in Callers : stop_bot_wait_tick(t)
    \/ \E t \in Callers : stop_bot_wait_timeout(t)
    \/ \E t \in Callers : stop_bot_finish(t)
    \/ \E t \in Callers : api_status(t)
    \/ \E t \in Callers : get_status_item(t)
    \/ \E t \in Callers : get_status_poll(t)
    \/ \E t \in Callers : api_health(t)
    \/ \E t \in Callers : Return(t)
    \/ \E p \in Procs : monitor_wait(p)
    \/ \E p \in Procs : monitor_update(p)
    \/ \E p \in Procs, c \in ExitCodes : ProcExitSelf(p, c)
    \/ \E p \in Procs : ProcExitTerm(p)
    \/ \E p \in Procs : ProcExitKill(p)

Spec == Init /\ [][Next]_vars

\* the bulk operations beside the single ones
NextAll ==
    \/ Next
    \/ \E t \in Callers : api_start_all(t)
    \/ \E t \in Callers : start_all_sleep(t)
    \/ \E t \in Callers : api_stop_all(t)
    \/ \E t \in Callers : stop_all_item(t)

AllSpec == Init /\ [][NextAll]_vars

\* the same with requests that do not overlap (watchers and children still
\* run beside the request being served)
NextSeqAll ==
    /\ NextAll
    /\ \A t \in Callers :
          (caller[t].pc = "idle" /\ caller'[t].pc # "idle")
              => \A u \in Callers \ {t} : caller[u].pc = "idle"

SeqAllSpec == Init /\ [][NextSeqAll]_vars

\* every operation of the server, a rescan included, as seconds pass
NextOps ==
    \/ NextAll
    \/ \E t \in Callers : api_rescan(t)
    \/ \E t \in Callers : scan_bots_item(t)
    \/ Tick

OpsSpec == Init /\ [][NextOps]_vars

\* rescans, one at a time, beside starts, status and health requests that
\* overlap them freely, within one second, under a BOTS_DIR that changes only
\* while no rescan runs
ScanStep ==
    \/ \E t \in Callers : api_rescan(t)
    \/ \E t \in Callers : scan_bots_item(t)
    \/ \E t \in Callers, id \in Ids : api_start_bot(t, id)
    \/ \E t \in Callers : start_bot_check(t)
    \/ \E t \in Callers : start_bot_poll(t)
    \/ \E t \in Callers : start_bot_launch(t)
    \/ \E t \in Callers : start_bot_launch_fails(t)
    \/ \E t \in Callers : start_bot_register(t)
    \/ \E t \in Callers : api_status(t)
    \/ \E t \in Callers : get_status_item(t)
    \/ \E t \in Callers : get_status_poll(t)
    \/ \E t \in Callers : api_health(t)
    \/ \E t \in Callers : Return(t)

NextScan ==
    \/ /\ ScanStep
       /\ \A t \in Callers :
             (caller[t].pc = "idle" /\ caller'[t].op = "rescan")
                 => \A u \in Callers \ {t} : caller[u].op # "rescan"
    \/ /\ \A t \in Callers : caller[t].op # "rescan"
       /\ \E name \in NewFolders, app \in AppKinds : AddFolder(name, app)
    \/ /\ \A t \in Callers : caller[t].op # "rescan"
       /\ RemoveRoot

ScanSpec == Init /\ [][NextScan]_vars

\* requests that do not overlap: a request is taken only when no other is
\* being served (watchers and children still run beside it)
NextSeq ==
    /\ Next
    /\ \A t \in Callers :
          (caller[t].pc = "idle" /\ caller'[t].pc # "idle")
              => \A u \in Callers \ {t} : caller[u].pc = "idle"

SeqSpec == Init /\ [][NextSeq]_vars

\* the OS ends a killed child and a stop that left its wait runs to its end
FairSpec ==
    /\ Spec
    /\ \A t \in Callers : WF_vars(stop_bot_finish(t))
    /\ \A p \in Procs : WF_vars(ProcExitKill(p))

\* ------------------------------------------------------------- claims
\* the registry maps the id of launch p to the record made for p
Tracked(p) ==
    /\ procs[p].id \in DOMAIN processes
    /\ processes[procs[p].id].process = p

\* C1: two start calls for one unit id that overlap launch exactly one OS
\* process: never have both launched a process that neither has registered.
C1_OverlappingStartsLaunchOnce ==
    \A t, u \in Callers :
        (t # u /\ caller[t].id = caller[u].id /\ caller[t].pc = "start_register")
            => caller[u].pc # "start_register"

\* C2: no automatic restart: a process is launched only by the launch step of
\* a start request, a descriptor becomes "running" and a registry entry is
\* written only by the register step of a start request, and a child that has
\* ended never runs again.
C2_NoAutomaticRestart ==
    [][/\ \A p \in Procs :
            /\ (procs[p].state = "none" /\ procs'[p].state # "none")
                  => \E t \in Callers :
                        /\ caller[t].pc = "start_launch"
                        /\ caller'[t].pc = "start_register"
            /\ procs[p].state = "exited" => procs'[p].state = "exited"
       /\ \A d \in 1..Len(desc) :
            (d <= Len(desc') /\ desc[d].status # "running" /\ desc'[d].status = "running")
                  => \E t \in Callers :
                        /\ caller[t].pc = "start_register"
                        /\ caller'[t].pc \in {"ret", "start_all_sleep"}
       /\ \A id \in DOMAIN processes' :
            (id \notin DOMAIN processes \/ processes'[id] # processes[id])
                  => \E t \in Callers :
                        /\ caller[t].pc = "start_register"
                        /\ caller'[t].pc \in {"ret", "start_all_sleep"}]_vars

\* a child has ended, its watcher has reconciled the exit and the unit stays
\* stopped while a later status request has run to its end
C2_Witness ==
    \E p \in Procs, t \in Callers :
        /\ procs[p].state = "exited" /\ watcher[p].pc = "done"
        /\ procs[p].id \notin DOMAIN processes
        /\ caller[t].pc = "ret" /\ caller[t].op = "status"
        /\ Len(caller[t].report) = 1 /\ caller[t].report[1].status = "stopped"
        /\ ~caller[t].report[1].running

\* C3: once a child has ended on its own with code c, its watcher is done and
\* no start for the unit is under way or came later, the registry does not
\* hold the id and status() reports the unit stopped, not running, with
\* exit code c.
C3_StatusReportsExitCode ==
    \A p \in launched :
        ( /\ procs[p].state = "exited"
          /\ \E c \in ExitCodes : procs[p].exit = Some(c)
          /\ watcher[p].pc = "done"
          /\ \A q \in launched : procs[q].id = procs[p].id => q <= p
          /\ \A t \in Callers : ~(caller[t].op \in {"start", "stop"} /\ caller[t].id = procs[p].id) )
        => /\ procs[p].id \notin DOMAIN processes
           /\ \A i \in 1..Len(bots) :
                desc[bots[i]].id = procs[p].id =>
                    /\ get_status_entry(bots[i]).status = "stopped"
                    /\ ~get_status_entry(bots[i]).running
                    /\ get_status_entry(bots[i]).exit_code = procs[p].exit

\* C4: start(id) on a unit whose registry entry holds a live process, the entry
\* being there at the membership test and at the lookup, returns success and
\* changes neither the processes (no launch, no log handle), nor the watchers,
\* nor the registry, nor any descriptor.
C4_StartIdempotentOnLive ==
    [][\A t \in Callers :
        ( /\ caller[t].pc \in {"start_check", "start_poll"} /\ caller'[t] # caller[t]
          /\ caller[t].id \in DOMAIN processes
          /\ procs[processes[caller[t].id].process].state = "alive" )
        => /\ \/ caller[t].pc = "start_check" /\ caller'[t].pc = "start_poll"
              \/ /\ caller[t].pc = "start_poll" /\ caller'[t].pc = "ret"
                 /\ caller'[t].result = "ok"
           /\ caller'[t].rec = NoRec
           /\ UNCHANGED <<procs, watcher, processes, desc, bots>>]_vars

\* a start request has returned success without launching, the unit running
C4_Witness ==
    \E t \in Callers :
        /\ caller[t].pc = "ret" /\ caller[t].op = "start" /\ caller[t].result = "ok"
        /\ caller[t].rec = NoRec
        /\ caller[t].id \in DOMAIN processes
        /\ procs[processes[caller[t].id].process].state = "alive"
        /\ desc[caller[t].bot].status = "running"
        /\ desc[caller[t].bot].pid = Some(processes[caller[t].id].process)

\* C5: a watcher whose process was ended by a stop that has since removed the
\* record (the id absent, or mapped to a newer launch) changes nothing when
\* it wakes up: no descriptor, no log handle, no registry entry.
C5_StaleWatcherChangesNothing ==
    [][\A p \in Procs :
        ( /\ watcher[p].pc = "check" /\ watcher'[p].pc = "done"
          /\ procs[p].exit = Some(TermCode)
          /\ \A t \in Callers : ~(caller[t].op = "stop" /\ caller[t].pc # "ret"
                                  /\ caller[t].rec.process = p)
          /\ ~Tracked(p) )
        => UNCHANGED <<desc, procs, processes>>]_vars

\* C6: the log handle of a launch is never closed twice.
C6_LogClosedOnce ==
    \A p \in launched : procs[p].log_closes <= 1

\* C7: a stop that found the id in the registry ends by returning success.
C7_StopReturnsSuccess ==
    \A t \in Callers :
        (caller[t].pc = "ret" /\ caller[t].op = "stop" /\ caller[t].rec # NoRec)
            => caller[t].result = "ok"

\* C8: SIGKILL is sent only by a stop whose wait has lasted the whole grace
\* period with the child, already sent SIGTERM, still alive; a stop leaves
\* its wait by the forced path exactly in that case; and after a forced stop
\* the child ends and the registry no longer holds its record.
C8_KillOnlyAfterGrace ==
    /\ [][/\ \A p \in Procs :
               (procs[p].sig # "kill" /\ procs'[p].sig = "kill")
                  => /\ procs[p].sig = "term" /\ procs[p].state = "alive"
                     /\ \E t \in Callers :
                          /\ caller[t].pc = "stop_wait" /\ caller[t].rec.process = p
                          /\ caller[t].waited = Grace /\ caller'[t].forced
          /\ \A t \in Callers :
               (caller[t].pc = "stop_wait" /\ caller'[t].pc = "stop_finish")
                  => /\ caller'[t].forced <=>
                           /\ caller[t].waited = Grace
                           /\ procs[caller[t].rec.process].state = "alive"
                     /\ caller'[t].forced => procs'[caller[t].rec.process].sig = "kill"
                     /\ ~caller'[t].forced => procs'[caller[t].rec.process].sig # "kill"]_vars
    /\ \A p \in Procs :
          (\E t \in Callers : caller[t].forced /\ caller[t].rec.process = p)
              ~> (procs[p].state = "exited" /\ ~Tracked(p))

\* a forced stop has returned success and the killed child has ended
C8_Witness ==
    \E t \in Callers :
        /\ caller[t].pc = "ret" /\ caller[t].op = "stop" /\ caller[t].forced
        /\ caller[t].result = "ok" /\ caller[t].waited = Grace
        /\ procs[caller[t].rec.process].exit = Some(KillCode)
        /\ caller[t].id \notin DOMAIN processes

\* C9: when stop returns success the descriptor holds an exit code, the one
\* the stopped child ended with.
C9_StopRecordsExitCode ==
    [][\A t \in Callers :
        (caller[t].pc = "stop_finish" /\ caller'[t].pc = "ret" /\ caller'[t].result = "ok")
        => /\ desc'[caller[t].rec.bot_info].exit_code # None
           /\ procs'[caller[t].rec.process].state = "exited"
                => desc'[caller[t].rec.bot_info].exit_code = procs'[caller[t].rec.process].exit]_vars

\* C10: stop(id) for an id with no registry entry returns failure and changes
\* neither the processes (no signal, no log handle closed), nor the registry,
\* nor any descriptor, nor the watchers.
C10_StopWithoutEntryIsNoOp ==
    [][\A t \in Callers :
        ( /\ caller[t].pc = "stop_check" /\ caller'[t] # caller[t]
          /\ caller[t].id \notin DOMAIN processes )
        => /\ caller'[t].pc = "ret" /\ caller'[t].result = "fail"
           /\ caller'[t].rec = NoRec
           /\ UNCHANGED <<procs, processes, desc, bots, watcher>>]_vars

\* stop has returned failure for a unit that ran before and is stopped now
C10_Witness ==
    \E t \in Callers, i \in 1..Len(bots) :
        /\ caller[t].pc = "ret" /\ caller[t].op = "stop" /\ caller[t].result = "fail"
        /\ caller[t].id = desc[bots[i]].id
        /\ desc[bots[i]].status = "stopped" /\ desc[bots[i]].pid # None
        /\ caller[t].id \notin DOMAIN processes

\* C11: when the launch inside start fails, start returns failure (start_all
\* counts no success) and no descriptor, registry entry, watcher or process
\* changes: a stopped descriptor stays stopped with no pid and no start time.
C11_LaunchFailureChangesNothing ==
    [][\A t \in Callers :
        ( /\ caller[t].pc = "start_launch"
          /\ caller'[t].pc \notin {"start_launch", "start_register"} )
        => /\ caller[t].op = "start" => caller'[t].pc = "ret" /\ caller'[t].result = "fail"
           /\ caller[t].op = "start_all" =>
                 caller'[t].pc = "start_all_sleep" /\ caller'[t].count = caller[t].count
           /\ UNCHANGED <<desc, processes, watcher, procs, bots>>
           /\ desc[caller[t].bot].status = "stopped" =>
                 /\ desc'[caller[t].bot].status = "stopped"
                 /\ desc'[caller[t].bot].pid = desc[caller[t].bot].pid
                 /\ desc'[caller[t].bot].start_time = desc[caller[t].bot].start_time]_vars

\* a start of a never-started bot has returned failure: the bot is stopped
\* with no pid, the registry is empty and no watcher exists
C11_Witness ==
    \E t \in Callers :
        /\ caller[t].pc = "ret" /\ caller[t].op = "start" /\ caller[t].result = "fail"
        /\ desc[caller[t].bot].status = "stopped" /\ desc[caller[t].bot].pid = None
        /\ desc[caller[t].bot].start_time = None
        /\ DOMAIN processes = {}
        /\ \A p \in Procs : watcher[p].pc = "none" /\ procs[p].state = "none"

\* C12: a start_all request that has run to its end reports as startedCount
\* the number of start calls that reported success.
C12_StartAllReportsCount ==
    \A t \in Callers :
        (caller[t].pc = "ret" /\ caller[t].op = "start_all" /\ caller[t].result = "ok")
            => caller[t].started = Some(caller[t].count)

\* C13: a stop_all request served while no other request runs (so no start is
\* concurrent, and nothing is added to the registry meanwhile) ends without
\* error whatever the watchers do, and leaves the registry without the ids
\* it held when the request began, that is, empty.
C13_StopAllEndsClean ==
    \A t \in Callers :
        (caller[t].pc = "ret" /\ caller[t].op = "stop_all")
            => caller[t].result = "ok" /\ DOMAIN processes = {}

\* C14: status() reports stopped, not running, no pid and no uptime for every
\* descriptor of the list that no start has ever been called with (it has no
\* pid and is the bot of no start under way).
C14_NeverStartedReportsStopped ==
    \A i \in 1..Len(bots) :
        ( /\ desc[bots[i]].pid = None
          /\ \A t \in Callers :
                ~(caller[t].op \in {"start", "start_all"} /\ caller[t].bot = bots[i]) )
        => /\ get_status_entry(bots[i]).status = "stopped"
           /\ ~get_status_entry(bots[i]).running
           /\ get_status_entry(bots[i]).pid = None
           /\ get_status_entry(bots[i]).uptime = None

\* the sub-folders of BOTS_DIR that hold an app.py that can be read
BotFolders == {disk.items[j].name : j \in {k \in 1..Len(disk.items) : disk.items[k].app = "ok"}}

\* the list holds exactly one descriptor for each bot folder and none for
\* any other folder
ListMatchesFolders ==
    /\ \A f \in BotFolders :
          Cardinality({i \in 1..Len(bots) : desc[bots[i]].folder = f}) = 1
    /\ \A i \in 1..Len(bots) : desc[bots[i]].folder \in BotFolders

\* C15 (as stated): when a rescan that overlapped no other rescan has run to
\* its end, the list holds exactly one descriptor for each sub-folder of
\* BOTS_DIR with a readable app.py and none for any other folder.
C15_RescanListsEveryBotFolder ==
    \A t \in Callers :
        (caller[t].pc = "ret" /\ caller[t].op = "rescan") => ListMatchesFolders

\* C15 (amended): the same for a rescan that found BOTS_DIR present: the step
\* that ends such a rescan leaves the list matching the folders.
C15_RescanOfPresentRootListsEveryBotFolder ==
    [][\A t \in Callers :
        ( /\ caller'[t].op = "rescan" /\ caller'[t].pc = "ret"
          /\ caller[t].pc \in {"idle", "scan_item"}
          /\ caller[t].pc = "idle" => disk.exists )
        => ListMatchesFolders']_vars

\* a rescan has ended with a descriptor for the old folder and one for a
\* readable folder added since the first scan, and none for a folder that
\* has no readable app.py
C15_Witness ==
    \E t \in Callers :
        /\ caller[t].pc = "ret" /\ caller[t].op = "rescan" /\ caller[t].count = 2
        /\ Len(disk.items) = 3
        /\ \E j \in 1..Len(disk.items) : disk.items[j].app # "ok"
        /\ \E j \in 1..Len(disk.items) : disk.items[j].app = "ok" /\ disk.items[j].name # "a"
        /\ ListMatchesFolders

\* C16: once a rescan has run to its end, every key of the registry is the id
\* of a descriptor of the current list, so that health counts as running only
\* units that status() shows.
C16_RescanDropsOldRunRecords ==
    \A t \in Callers :
        (caller[t].pc = "ret" /\ caller[t].op = "rescan")
            => \A id \in DOMAIN processes :
                  \E i \in 1..Len(bots) : desc[bots[i]].id = id

\* C17: a start request whose id is the id of no descriptor of the current
\* list returns "not found" at once and changes neither the list, nor any
\* descriptor, nor the registry, nor any process or watcher.
C17_StartUnknownIdIsNotFound ==
    [][\A t \in Callers :
        ( /\ caller[t].pc = "idle" /\ caller'[t].op = "start"
          /\ \A i \in 1..Len(bots) : desc[bots[i]].id # caller'[t].id )
        => /\ caller'[t].pc = "ret" /\ caller'[t].result = "not_found"
           /\ UNCHANGED <<bots, desc, processes, procs, watcher>>]_vars

\* a start request naming the id of a descriptor that a rescan discarded has
\* returned "not found"
C17_Witness ==
    \E t \in Callers :
        /\ caller[t].pc = "ret" /\ caller[t].op = "start" /\ caller[t].result = "not_found"
        /\ \E d \in 1..Len(desc) : desc[d].id = caller[t].id
        /\ \A i \in 1..Len(bots) : desc[bots[i]].id # caller[t].id
        /\ Len(bots) > 0

\* C18: every launched child that is alive (and not dying of a SIGKILL), whose
\* start has registered it and whose unit no stop is working on, is the
\* process of the registry entry of its id, and the log handle of that entry
\* is open.
C18_LiveProcessIsTracked ==
    \A p \in launched :
        ( /\ procs[p].state = "alive" /\ procs[p].sig # "kill"
          /\ \A t \in Callers :
                /\ ~(caller[t].pc = "start_register" /\ caller[t].rec.process = p)
                /\ ~(caller[t].op = "stop" /\ caller[t].pc \notin {"idle", "ret"}
                      /\ caller[t].id = procs[p].id) )
        => /\ Tracked(p)
           /\ procs[processes[procs[p].id].log_fd].log_closes = 0

\* C19: the entry status() appends for a bot whose id it found in the registry
\* is, when the child has ended, not running, without uptime and with the
\* exit code the child ended with; an entry says running, or carries an
\* uptime, only when the id is in the registry and the child is alive.
C19_StatusPollsTheProcess ==
    [][\A t \in Callers :
        ( /\ caller[t].pc \in {"status_item", "status_poll"}
          /\ Len(caller'[t].report) = Len(caller[t].report) + 1 )
        => LET e  == caller'[t].report[Len(caller'[t].report)]
               id == desc[Items(caller[t])[caller[t].i]].id
           IN  /\ e.id = id
               /\ (caller[t].pc = "status_item" \/ id \notin DOMAIN processes)
                     => ~e.running /\ e.uptime = None
               /\ (caller[t].pc = "status_poll" /\ id \in DOMAIN processes)
                     => LET p == processes[id].process IN
                        /\ procs[p].state = "exited"
                              => /\ ~e.running /\ e.uptime = None
                                 /\ e.exit_code = procs[p].exit
                        /\ e.running => procs[p].state = "alive"
                        /\ e.uptime # None => e.running]_vars

\* status() has reported a bot whose child had ended, before its watcher
\* reconciled the exit: not running, no uptime, the exit code of the child
C19_Witness ==
    \E t \in Callers, p \in Procs :
        /\ caller[t].pc = "ret" /\ caller[t].op = "status" /\ caller[t].result = "ok"
        /\ Len(caller[t].report) = 1
        /\ ~caller[t].report[1].running /\ caller[t].report[1].uptime = None
        /\ caller[t].report[1].exit_code = procs[p].exit /\ procs[p].exit # None
        /\ Tracked(p) /\ procs[p].id = caller[t].report[1].id
        /\ watcher[p].pc = "wait"

\* C20: a status request always ends without error, with one entry for each
\* descriptor of the list.
C20_StatusNeverFails ==
    \A t \in Callers :
        (caller[t].pc = "ret" /\ caller[t].op = "status")
            => /\ caller[t].result = "ok"
               /\ Len(caller[t].report) = Len(Items(caller[t]))

\* C21: the list never holds two descriptors with the same id.
C21_ListHasNoDuplicateId ==
    \A i, j \in 1..Len(bots) :
        i # j => desc[bots[i]].id # desc[bots[j]].id

\* C22: a rescan, overlapping no other rescan, whose listing of BOTS_DIR holds
\* a sub-folder with an app.py that cannot be read ends without error; the
\* list then holds a descriptor for every listed sub-folder with a readable
\* app.py and none for the unreadable one.
C22_UnreadableEntrySkipsOnlyThatUnit ==
    [][\A t \in Callers :
        ( /\ caller'[t].op = "rescan" /\ caller'[t].pc = "ret"
          /\ caller[t].pc \in {"idle", "scan_item"}
          /\ \E j \in 1..Len(caller'[t].lst) : caller'[t].lst[j].app = "unreadable" )
        => /\ caller'[t].result = "ok"
           /\ \A j \in 1..Len(caller'[t].lst) :
                 (\E i \in 1..Len(bots') :
                     desc'[bots'[i]].folder = caller'[t].lst[j].name)
                 <=> caller'[t].lst[j].app = "ok"]_vars

\* a rescan has ended without error on a listing whose second entry cannot be
\* read and whose third entry can: the list holds the first and the third
C22_Witness ==
    \E t \in Callers :
        /\ caller[t].pc = "ret" /\ caller[t].op = "rescan" /\ caller[t].result = "ok"
        /\ Len(caller[t].lst) = 3
        /\ caller[t].lst[2].app = "unreadable" /\ caller[t].lst[3].app = "ok"
        /\ Len(bots) = 2
        /\ desc[bots[1]].folder = caller[t].lst[1].name
        /\ desc[bots[2]].folder = caller[t].lst[3].name

====
